---- MODULE Spec2Model ----
(***************************************************************************)
(* KRPC package envelope of rust-dht (src/krpc.rs) and its conversion to a *)
(* bencode value tree, Package::to_bencode.                                *)
(*                                                                         *)
(* Representation.                                                         *)
(*  - Vec<u8> is a sequence of bytes (0..255).                             *)
(*  - A Rust String is its UTF-8 byte buffer (that is what a String is),   *)
(*    so as_bytes is a view of the same bytes and String's Ord is the      *)
(*    byte-wise order.                                                     *)
(*  - A TreeMap is the sequence of its entries in the order its iterator   *)
(*    yields them; TreeMapInsert is the one operation that touches it.     *)
(*  - A bencode::Bencode value is a record tagged Number, ByteString,      *)
(*    List or Dict.                                                        *)
(***************************************************************************)
EXTENDS Integers, Sequences, FiniteSets, TLC

VARIABLES st

vars == <<st>>

----------------------------------------------------------------------------
(* Bounds of the model.                                                    *)

MaxTidLen == 2
MaxEntries == 2
PairMaxTidLen == 1
PairMaxEntries == 2

----------------------------------------------------------------------------
(* Input domains.                                                          *)

\* bytes pushed into a transaction_id (the test uses 1, 2, 254, 255)
Bytes == {1, 254, 255}
\* payload keys: "a", "ab" (one a prefix of the other), "id", and the
\* non-ASCII U+00E9 whose UTF-8 form is C3 A9
Keys == {<<97>>, <<97, 98>>, <<105, 100>>, <<195, 169>>}
\* payload values
Values == {<<>>, <<7, 255>>}
\* error codes (i64) and messages: "", "e", U+00E9
Codes == {-1, 0, 201}
Messages == {<<>>, <<101>>, <<195, 169>>}
\* sender nodes, by node id
Senders == {<<42>>, <<7>>}

PairBytes == {255}
PairKeys == {<<97>>, <<97, 98>>, <<195, 169>>}
PairValues == {<<7, 255>>}
PairCodes == {-1, 201}
PairMessages == {<<101>>}

----------------------------------------------------------------------------
(* bencode::Bencode                                                        *)

Number(n) == [tag |-> "Number", n |-> n]
ByteString(b) == [tag |-> "ByteString", bytes |-> b]
List(l) == [tag |-> "List", items |-> l]
Dict(m) == [tag |-> "Dict", map |-> m]
NoBencode == [tag |-> "None"]

----------------------------------------------------------------------------
(* Strings and byte strings                                                *)

\* &str -> &[u8]: the String's own UTF-8 buffer
as_bytes(s) == s

\* bencode::util::ByteString::from_str: the key holding the str's bytes
from_str(s) == as_bytes(s)

\* Ord of Vec<u8>, util::ByteString and String: lexicographic on raw bytes
BytesLess(a, b) ==
    \E n \in 0..Len(a) :
        /\ n <= Len(b)
        /\ \A j \in 1..n : a[j] = b[j]
        /\ IF n = Len(a) THEN n < Len(b)
                         ELSE n < Len(b) /\ a[n + 1] < b[n + 1]

\* the string literals of to_bencode
KeyTT == <<116, 116>>
KeyY == <<121>>
TypQ == <<113>>
TypR == <<114>>
TypE == <<101>>

----------------------------------------------------------------------------
(* collections::TreeMap                                                    *)

Entry(key, value) == [key |-> key, value |-> value]

HasKey(m, key) == \E j \in 1..Len(m) : m[j].key = key

Lookup(m, key) == m[CHOOSE j \in 1..Len(m) : m[j].key = key].value

KeysOf(m) == [j \in 1..Len(m) |-> m[j].key]

\* mutant: entries kept in descending key order
TreeMapInsertDescending(m, key, value) ==
    IF HasKey(m, key)
    THEN [j \in 1..Len(m) |-> IF m[j].key = key THEN Entry(key, value) ELSE m[j]]
    ELSE LET pos == Cardinality({j \in 1..Len(m) : BytesLess(key, m[j].key)})
         IN  SubSeq(m, 1, pos) \o <<Entry(key, value)>> \o SubSeq(m, pos + 1, Len(m))

\* mutant: entries kept in insertion order (as a hash map or a vector would)
TreeMapInsertUnordered(m, key, value) ==
    IF HasKey(m, key)
    THEN [j \in 1..Len(m) |-> IF m[j].key = key THEN Entry(key, value) ELSE m[j]]
    ELSE Append(m, Entry(key, value))

\* TreeMap::insert: replace the value of an equal key, else place the entry
\* after every smaller key
TreeMapInsert(m, key, value) ==
    IF HasKey(m, key)
    THEN [j \in 1..Len(m) |-> IF m[j].key = key THEN Entry(key, value) ELSE m[j]]
    ELSE LET pos == Cardinality({j \in 1..Len(m) : BytesLess(m[j].key, key)})
         IN  SubSeq(m, 1, pos) \o <<Entry(key, value)>> \o SubSeq(m, pos + 1, Len(m))

----------------------------------------------------------------------------
(* PackagePayload and Package                                              *)

Query(d) == [kind |-> "Query", d |-> d, code |-> 0, s |-> <<>>]
Response(d) == [kind |-> "Response", d |-> d, code |-> 0, s |-> <<>>]
Error(code, s) == [kind |-> "Error", d |-> <<>>, code |-> code, s |-> s]

Package(transaction_id, payload, sender) ==
    [transaction_id |-> transaction_id, payload |-> payload, sender |-> sender]

----------------------------------------------------------------------------
(* ToBencode of the library types used by krpc.rs                          *)

\* u8 and i64: Number(*self as i64)
int_to_bencode(n) == Number(n)

\* Vec<T>: the List of the elements' to_bencode
vec_u8_to_bencode(v) == List([j \in 1..Len(v) |-> int_to_bencode(v[j])])

\* String: the ByteString of its bytes
string_to_bencode(s) == ByteString(as_bytes(s))

\* mutant: Vec<u8>::to_bencode used in place of bytes_to_bencode
bytes_to_bencode_generic(bytes) == vec_u8_to_bencode(bytes)

bytes_to_bencode(bytes) == ByteString(bytes)

str_to_bencode(s) == bytes_to_bencode(as_bytes(s))

----------------------------------------------------------------------------
(* Package::bdict_to_bencode                                               *)

RECURSIVE bdict_loop(_, _)
\* the result map after the first n entries of d.iter()
bdict_loop(d, n) ==
    IF n = 0 THEN <<>>
    ELSE TreeMapInsert(bdict_loop(d, n - 1),
                       from_str(d[n].key),
                       vec_u8_to_bencode(d[n].value))

\* mutant: the loop misses the first entry of the iterator
bdict_to_bencode_skip_first(self, d) ==
    Dict(bdict_loop(IF Len(d) = 0 THEN d ELSE Tail(d), IF Len(d) = 0 THEN 0 ELSE Len(d) - 1))

bdict_to_bencode(self, d) == Dict(bdict_loop(d, Len(d)))

----------------------------------------------------------------------------
(* impl ToBencode for Package                                              *)

\* mutant: message first, code second
error_to_bencode_swapped(code, s) ==
    List(<<string_to_bencode(s), int_to_bencode(code)>>)

\* the Error arm of the match
error_to_bencode(code, s) ==
    List(<<int_to_bencode(code), string_to_bencode(s)>>)

Typ(self) ==
    CASE self.payload.kind = "Query" -> TypQ
      [] self.payload.kind = "Response" -> TypR
      [] self.payload.kind = "Error" -> TypE

PayloadBencode(self) ==
    CASE self.payload.kind = "Query" -> bdict_to_bencode(self, self.payload.d)
      [] self.payload.kind = "Response" -> bdict_to_bencode(self, self.payload.d)
      [] self.payload.kind = "Error" ->
            error_to_bencode(self.payload.code, self.payload.s)

to_bencode(self) ==
    LET r1 == TreeMapInsert(<<>>, from_str(KeyTT),
                            bytes_to_bencode(self.transaction_id))
        r2 == TreeMapInsert(r1, from_str(KeyY), str_to_bencode(Typ(self)))
        r3 == TreeMapInsert(r2, from_str(Typ(self)), PayloadBencode(self))
    IN  Dict(r3)

----------------------------------------------------------------------------
(* The state machine: each slot builds a transaction id and a BDict,       *)
(* constructs a Package from them and calls to_bencode on it.              *)

NoPayload == [kind |-> "None", d |-> <<>>, code |-> 0, s |-> <<>>]

NewSlot ==
    [pc |-> "new", transaction_id |-> <<>>, d |-> <<>>,
     pkg |-> Package(<<>>, NoPayload, <<>>),
     enc |-> NoBencode, again |-> NoBencode]

Init == st = [i \in {1} |-> NewSlot]

InitPair == st = [i \in {1, 2} |-> NewSlot]

\* vec![..]: one more byte of the transaction id
PushTid(i, b, max) ==
    /\ st[i].pc = "new"
    /\ Len(st[i].transaction_id) < max
    /\ st' = [st EXCEPT ![i].transaction_id = Append(@, b)]

\* payload.insert(key, value) on the BDict being built
InsertPayload(i, key, value, max) ==
    /\ st[i].pc = "new"
    /\ HasKey(st[i].d, key) \/ Len(st[i].d) < max
    /\ st' = [st EXCEPT ![i].d = TreeMapInsert(@, key, value)]

\* Package { transaction_id, payload, sender }
NewPackage(i, payload, sender) ==
    /\ st[i].pc = "new"
    /\ st' = [st EXCEPT ![i].pc = "built",
                        ![i].pkg = Package(st[i].transaction_id, payload, sender),
                        ![i].transaction_id = <<>>,
                        ![i].d = <<>>]

NewQuery(i, sender) == NewPackage(i, Query(st[i].d), sender)

NewResponse(i, sender) == NewPackage(i, Response(st[i].d), sender)

NewError(i, code, s, sender) == NewPackage(i, Error(code, s), sender)

\* p.to_bencode(): &self, so the package is left as it is
ToBencode(i) ==
    /\ st[i].pc \in {"built", "encoded"}
    /\ st' = [st EXCEPT ![i].pc = "encoded",
                        ![i].enc = to_bencode(st[i].pkg),
                        ![i].again = IF st[i].pc = "encoded" THEN st[i].enc
                                                              ELSE NoBencode]

Next ==
    \E i \in DOMAIN st :
        \/ \E b \in Bytes : PushTid(i, b, MaxTidLen)
        \/ \E key \in Keys, value \in Values :
              InsertPayload(i, key, value, MaxEntries)
        \/ \E sender \in Senders : NewQuery(i, sender)
        \/ \E sender \in Senders : NewResponse(i, sender)
        \/ \E code \in Codes, s \in Messages, sender \in Senders :
              NewError(i, code, s, sender)
        \/ ToBencode(i)

NextPair ==
    \E i \in DOMAIN st :
        \/ \E b \in PairBytes : PushTid(i, b, PairMaxTidLen)
        \/ \E key \in PairKeys, value \in PairValues :
              InsertPayload(i, key, value, PairMaxEntries)
        \/ \E sender \in Senders : NewQuery(i, sender)
        \/ \E sender \in Senders : NewResponse(i, sender)
        \/ \E code \in PairCodes, s \in PairMessages, sender \in Senders :
              NewError(i, code, s, sender)
        \/ ToBencode(i)

Spec == Init /\ [][Next]_vars

SpecPair == InitPair /\ [][NextPair]_vars

----------------------------------------------------------------------------
(* Vocabulary of the properties                                            *)

Encoded(i) == st[i].pc = "encoded"

\* the top-level map of the result of to_bencode on slot i
TopMap(i) == st[i].enc.map

\* the nested payload map of a Query or Response
PayloadMap(i) == Lookup(TopMap(i), Typ(st[i].pkg)).map

IsDictPayload(i) == st[i].pkg.payload.kind \in {"Query", "Response"}

IsByteStringOf(v, bytes) == v.tag = "ByteString" /\ v.bytes = bytes

StrictlyIncreasing(ks) == \A j \in 1..(Len(ks) - 1) : BytesLess(ks[j], ks[j + 1])

\* the keys of BEP 0005
KeyT == <<116>>
KeyA == <<97>>
KeyV == <<118>>
KeyId == <<105, 100>>

BepKeys == {KeyT, KeyY, TypQ, KeyA, TypR, TypE, KeyV}

----------------------------------------------------------------------------
\* C1: every top-level key of the dictionary returned by to_bencode is one
\* of t, y, q, a, r, e, v, and the transaction id is carried under key t.
C1_TopLevelKeysAreBepKeys ==
    \A i \in DOMAIN st : Encoded(i) =>
        /\ \A j \in 1..Len(TopMap(i)) : TopMap(i)[j].key \in BepKeys
        /\ HasKey(TopMap(i), KeyT)
        /\ IsByteStringOf(Lookup(TopMap(i), KeyT), st[i].pkg.transaction_id)

\* C2: for a Query the result carries the method name as a byte string under
\* key q and the arguments dictionary under key a.
C2_QueryMethodUnderQArgsUnderA ==
    \A i \in DOMAIN st : (Encoded(i) /\ st[i].pkg.payload.kind = "Query") =>
        /\ HasKey(TopMap(i), TypQ)
        /\ Lookup(TopMap(i), TypQ).tag = "ByteString"
        /\ HasKey(TopMap(i), KeyA)
        /\ Lookup(TopMap(i), KeyA).tag = "Dict"

\* C3: for a Query or Response the emitted payload dictionary has the key id
\* holding the sender's node id, whatever the caller put in the BDict.
C3_PayloadCarriesSenderId ==
    \A i \in DOMAIN st : (Encoded(i) /\ IsDictPayload(i)) =>
        /\ HasKey(PayloadMap(i), KeyId)
        /\ IsByteStringOf(Lookup(PayloadMap(i), KeyId), st[i].pkg.sender)

\* C4: every emitted message carries a non-empty transaction id and the type
\* tag y: "q" exactly for Query, "r" exactly for Response, "e" exactly for
\* Error; also for a package whose transaction_id vector is empty.
C4_NonEmptyTidAndTypeTag ==
    \A i \in DOMAIN st : Encoded(i) =>
        /\ HasKey(TopMap(i), KeyTT)
        /\ Lookup(TopMap(i), KeyTT).tag = "ByteString"
        /\ Len(Lookup(TopMap(i), KeyTT).bytes) > 0
        /\ HasKey(TopMap(i), KeyY)
        /\ Lookup(TopMap(i), KeyY).tag = "ByteString"
        /\ (Lookup(TopMap(i), KeyY).bytes = TypQ) <=> (st[i].pkg.payload.kind = "Query")
        /\ (Lookup(TopMap(i), KeyY).bytes = TypR) <=> (st[i].pkg.payload.kind = "Response")
        /\ (Lookup(TopMap(i), KeyY).bytes = TypE) <=> (st[i].pkg.payload.kind = "Error")

\* C5: the entry under key tt is a ByteString equal byte for byte to the
\* package's transaction_id (same length, same order, bytes >= 128 kept),
\* not a list of numbers.
C5_TtIsTransactionIdBytes ==
    \A i \in DOMAIN st : Encoded(i) =>
        /\ st[i].enc.tag = "Dict"
        /\ HasKey(TopMap(i), KeyTT)
        /\ Lookup(TopMap(i), KeyTT).tag = "ByteString"
        /\ Len(Lookup(TopMap(i), KeyTT).bytes) = Len(st[i].pkg.transaction_id)
        /\ \A j \in 1..Len(st[i].pkg.transaction_id) :
              Lookup(TopMap(i), KeyTT).bytes[j] = st[i].pkg.transaction_id[j]

C5_Witness ==
    \E i \in DOMAIN st :
        /\ Encoded(i)
        /\ st[i].pkg.transaction_id = <<254, 255>>
        /\ st[i].pkg.payload.kind = "Error"

\* C6: for Error(code, message) the entry under key e is a list of exactly
\* two elements, first the integer code (negative ones too), second the byte
\* string of the message's bytes.
C6_ErrorIsCodeThenMessage ==
    \A i \in DOMAIN st : (Encoded(i) /\ st[i].pkg.payload.kind = "Error") =>
        /\ HasKey(TopMap(i), TypE)
        /\ Lookup(TopMap(i), TypE).tag = "List"
        /\ Len(Lookup(TopMap(i), TypE).items) = 2
        /\ Lookup(TopMap(i), TypE).items[1].tag = "Number"
        /\ Lookup(TopMap(i), TypE).items[1].n = st[i].pkg.payload.code
        /\ IsByteStringOf(Lookup(TopMap(i), TypE).items[2], st[i].pkg.payload.s)

C6_Witness ==
    \E i \in DOMAIN st :
        /\ Encoded(i)
        /\ st[i].pkg.payload.kind = "Error"
        /\ st[i].pkg.payload.code = -1
        /\ st[i].pkg.payload.s = <<195, 169>>

C8_KeysStrictlyIncreasing ==
    \A i \in DOMAIN st : Encoded(i) =>
        /\ StrictlyIncreasing(KeysOf(TopMap(i)))
        /\ IsDictPayload(i) => StrictlyIncreasing(KeysOf(PayloadMap(i)))

C8_Witness ==
    \E i \in DOMAIN st :
        /\ Encoded(i)
        /\ st[i].pkg.payload.kind = "Response"
        /\ KeysOf(PayloadMap(i)) = <<<<97, 98>>, <<195, 169>>>>

\* the same key -> value mapping, in whatever order it was built
SameMapping(d1, d2) ==
    {d1[j] : j \in 1..Len(d1)} = {d2[j] : j \in 1..Len(d2)}

SameMessage(p1, p2) ==
    /\ p1.transaction_id = p2.transaction_id
    /\ p1.payload.kind = p2.payload.kind
    /\ SameMapping(p1.payload.d, p2.payload.d)
    /\ p1.payload.code = p2.payload.code
    /\ p1.payload.s = p2.payload.s

\* C9 (results): equal messages give equal results; a second call gives
\* the result of the first.
C9_SameMessageSameResult ==
    \A i \in DOMAIN st : \A k \in DOMAIN st :
        /\ (Encoded(i) /\ Encoded(k) /\ SameMessage(st[i].pkg, st[k].pkg))
              => st[i].enc = st[k].enc
        /\ (Encoded(i) /\ st[i].again # NoBencode) => st[i].again = st[i].enc

\* C9 (package): a step taken once the package is built leaves it as it is.
C9_CallLeavesPackage ==
    \A i \in DOMAIN st : st[i].pc \in {"built", "encoded"} => st'[i].pkg = st[i].pkg

C10_PayloadValuesAreByteStrings ==
    \A i \in DOMAIN st : (Encoded(i) /\ IsDictPayload(i)) =>
        \A j \in 1..Len(st[i].pkg.payload.d) :
            /\ HasKey(PayloadMap(i), st[i].pkg.payload.d[j].key)
            /\ IsByteStringOf(Lookup(PayloadMap(i), st[i].pkg.payload.d[j].key),
                              st[i].pkg.payload.d[j].value)

====
